---- MODULE Spec2Model ----
(***************************************************************************)
(* Endpointo: the crawl / fetch / extract / hook pipeline.                 *)
(*                                                                         *)
(* Text (file contents, HTTP bodies, URLs) is a sequence of characters,    *)
(* each character a one-element string.  U+00E9 stands for the one         *)
(* character e-acute, which is two bytes long in UTF-8.  An optional value *)
(* (Rust Option) is a sequence of length at most one: <<>> is None and     *)
(* <<x>> is Some(x).                                                       *)
(***************************************************************************)
EXTENDS Integers, Sequences, FiniteSets, TLC

None == <<>>
Some(x) == <<x>>

Min(S) == CHOOSE x \in S : \A y \in S : x <= y
Max(S) == CHOOSE x \in S : \A y \in S : x >= y

RECURSIVE Concat(_)
Concat(ss) == IF ss = <<>> THEN <<>> ELSE Head(ss) \o Concat(Tail(ss))

(***************************************************************************)
(* Characters                                                              *)
(***************************************************************************)
\* the characters in the order of their code points (str ordering of Rust)
CharOrder ==
  << "\t", "\n", " ", "!", "\"", "#", "$", "%", "&", "'", "(", ")",
     "*", "+", ",", "-", ".", "/", "0", "1", "2", "3", "4", "5",
     "6", "7", "8", "9", ":", ";", "<", "=", ">", "?", "@", "A",
     "B", "C", "D", "E", "F", "G", "H", "I", "J", "K", "L", "M",
     "N", "O", "P", "Q", "R", "S", "T", "U", "V", "W", "X", "Y",
     "Z", "[", "\\", "]", "^", "_", "U+0060", "a", "b", "c", "d", "e",
     "f", "g", "h", "i", "j", "k", "l", "m", "n", "o", "p", "q",
     "r", "s", "t", "u", "v", "w", "x", "y", "z", "{", "|", "}",
     "~", "U+00E9" >>

Ord(c) == CHOOSE i \in 1..Len(CharOrder) : CharOrder[i] = c

LowerCase == << "a", "b", "c", "d", "e", "f", "g", "h", "i", "j", "k", "l", "m",
                "n", "o", "p", "q", "r", "s", "t", "u", "v", "w", "x", "y", "z" >>
UpperCase == << "A", "B", "C", "D", "E", "F", "G", "H", "I", "J", "K", "L", "M",
                "N", "O", "P", "Q", "R", "S", "T", "U", "V", "W", "X", "Y", "Z" >>

Digits == {"0", "1", "2", "3", "4", "5", "6", "7", "8", "9"}
Letters == {LowerCase[i] : i \in 1..26} \cup {UpperCase[i] : i \in 1..26}
\* \s, \w of the regex crate (Unicode aware: e-acute is a word character)
WS == {" ", "\n", "\t"}
WordChars == Letters \cup Digits \cup {"_", "U+00E9"}
\* the three quote characters; U+0060 stands for the backtick
Quotes == {"\"", "'", "U+0060"}
\* the complement of the class: not a quote, not whitespace
QuoteOrSpace == Quotes \cup WS
\* the characters that end an absolute URL in URL_REGEX
UrlStop == WS \cup {"\"", "'", "<", ">", "{", "}", "|", "\\", "^", "U+0060", "[", "]"}
\* the characters that end a rooted path in URL_REGEX
PathStop == WS \cup {"\"", "'", "<", ">"}

\* char::to_uppercase on the letters of the table
ToUpper(c) ==
  IF \E i \in 1..26 : LowerCase[i] = c
  THEN UpperCase[CHOOSE i \in 1..26 : LowerCase[i] = c]
  ELSE c

to_uppercase(s) == [i \in 1..Len(s) |-> ToUpper(s[i])]

\* the length of a character in bytes (UTF-8)
Width(c) == IF c = "U+00E9" THEN 2 ELSE 1

(***************************************************************************)
(* str operations                                                          *)
(***************************************************************************)
HasAt(s, i, w) ==
  /\ i >= 1
  /\ i + Len(w) - 1 <= Len(s)
  /\ \A k \in 1..Len(w) : s[i + k - 1] = w[k]

\* case-insensitive literal, (?i)
HasAtNoCase(s, i, w) ==
  /\ i >= 1
  /\ i + Len(w) - 1 <= Len(s)
  /\ \A k \in 1..Len(w) : ToUpper(s[i + k - 1]) = ToUpper(w[k])

contains(s, w) == \E i \in 1..(Len(s) - Len(w) + 1) : HasAt(s, i, w)
starts_with(s, w) == HasAt(s, 1, w)
ends_with(s, w) == Len(w) <= Len(s) /\ HasAt(s, Len(s) - Len(w) + 1, w)

\* str::find: the index of the first occurrence, 0 when there is none
find(s, w) ==
  LET hits == {i \in 1..(Len(s) - Len(w) + 1) : HasAt(s, i, w)}
  IN IF hits = {} THEN 0 ELSE Min(hits)

\* str::len, in bytes: one per character and one more per byte beyond the first
ByteLen(s) ==
  Len(s) + Cardinality({<<i, k>> \in (1..Len(s)) \X (2..4) : Width(s[i]) >= k})

\* the byte offset at which character i of s starts
ByteOffset(s, i) == ByteLen(SubSeq(s, 1, i - 1))

\* the last index of the run of characters outside stop that starts at i
\* (i - 1 when the run is empty)
RunEndNot(s, i, stop) ==
  LET stops == {j \in i..Len(s) : s[j] \in stop}
  IN IF stops = {} THEN Len(s) ELSE Min(stops) - 1

\* the last index of the run of characters of cls that starts at i
RunEndIn(s, i, cls) ==
  LET stops == {j \in i..Len(s) : s[j] \notin cls}
  IN IF stops = {} THEN Len(s) ELSE Min(stops) - 1

\* str::trim_matches with the three quote characters
trim_quotes(s) ==
  LET keep == {i \in 1..Len(s) : s[i] \notin Quotes}
  IN IF keep = {} THEN <<>> ELSE SubSeq(s, Min(keep), Max(keep))

\* the order of str (byte-wise lexicographic)
RECURSIVE StrLess(_, _)
StrLess(a, b) ==
  IF b = <<>> THEN FALSE
  ELSE IF a = <<>> THEN TRUE
  ELSE IF Head(a) = Head(b) THEN StrLess(Tail(a), Tail(b))
  ELSE Ord(Head(a)) < Ord(Head(b))

\* str::split(sep) for a one-character separator: the pieces, empty ones included
RECURSIVE split(_, _)
split(s, sep) ==
  LET k == find(s, <<sep>>)
  IN IF k = 0 THEN <<s>>
     ELSE <<SubSeq(s, 1, k - 1)>> \o split(SubSeq(s, k + 1, Len(s)), sep)

(***************************************************************************)
(* types.rs: Endpoint                                                      *)
(***************************************************************************)
EndpointNew(url, endpoint_type) ==
  [url |-> url, method |-> None, endpoint_type |-> endpoint_type,
   source |-> None, line |-> None, params |-> None, metadata |-> None]

with_method(ep, method) == [ep EXCEPT !.method = Some(method)]
\* the update rebuilding the endpoint: the fields set before are lost
with_source_rebuilding(ep, source) ==
  [EndpointNew(ep.url, ep.endpoint_type) EXCEPT !.source = Some(source)]

with_source(ep, source) == [ep EXCEPT !.source = Some(source)]
with_line(ep, line) == [ep EXCEPT !.line = Some(line)]
with_params(ep, params) == [ep EXCEPT !.params = Some(params)]
with_metadata(ep, metadata) == [ep EXCEPT !.metadata = Some(metadata)]

(***************************************************************************)
(* parser/patterns.rs: the compiled rule set                               *)
(***************************************************************************)
kHttp == <<"h","t","t","p",":","/","/">>
kHttps == <<"h","t","t","p","s",":","/","/">>
kApi == <<"a","p","i">>
kRest == <<"r","e","s","t">>
kGraphql == <<"g","r","a","p","h","q","l">>
kMutation == <<"m","u","t","a","t","i","o","n">>
kQuery == <<"q","u","e","r","y">>
kWs == <<"w","s",":","/","/">>
kWss == <<"w","s","s",":","/","/">>

\* (users?|auth|login|logout|register)
AuthWords ==
  << <<"u","s","e","r">>, <<"a","u","t","h">>, <<"l","o","g","i","n">>,
     <<"l","o","g","o","u","t">>, <<"r","e","g","i","s","t","e","r">> >>

\* (data|fetch|submit|update|delete|create|get)
CrudWords ==
  << <<"d","a","t","a">>, <<"f","e","t","c","h">>, <<"s","u","b","m","i","t">>,
     <<"u","p","d","a","t","e">>, <<"d","e","l","e","t","e">>,
     <<"c","r","e","a","t","e">>, <<"g","e","t">> >>

\* (GET|POST|PUT|DELETE|PATCH|HEAD|OPTIONS)
MethodWords ==
  << <<"G","E","T">>, <<"P","O","S","T">>, <<"P","U","T">>,
     <<"D","E","L","E","T","E">>, <<"P","A","T","C","H">>, <<"H","E","A","D">>,
     <<"O","P","T","I","O","N","S">> >>

\* the static-asset extensions of is_valid_url
Extensions ==
  << <<".","j","p","g">>, <<".","p","n","g">>, <<".","g","i","f">>,
     <<".","c","s","s">>, <<".","w","o","f","f">>, <<".","t","t","f">>,
     <<".","i","c","o">> >>

\* the length of the first word of ws (tried in order) that s has at i, else 0
FirstWordAt(s, i, ws) ==
  LET hits == {k \in 1..Len(ws) : HasAt(s, i, ws[k])}
  IN IF hits = {} THEN 0 ELSE Len(ws[Min(hits)])

\* Every rule below gives the index of the last character of the match of the
\* regex that starts at i (leftmost-first, greedy), or 0 when none starts at i.

\* (?:https?://|//)[^UrlStop]+|/(?:api|v\d+|graphql)[^PathStop]*
URL_REGEX(s, i) ==
  LET pre == IF HasAt(s, i, kHttp) THEN 7
             ELSE IF HasAt(s, i, kHttps) THEN 8
             ELSE IF HasAt(s, i, <<"/", "/">>) THEN 2
             ELSE 0
      kw == IF HasAt(s, i, <<"/">> \o kApi) THEN 4
            ELSE IF HasAt(s, i, <<"/", "v">>) /\ i + 2 <= Len(s) /\ s[i + 2] \in Digits
                 THEN 3
            ELSE IF HasAt(s, i, <<"/">> \o kGraphql) THEN 8
            ELSE 0
  IN IF pre > 0 /\ RunEndNot(s, i + pre, UrlStop) >= i + pre
     THEN RunEndNot(s, i + pre, UrlStop)
     ELSE IF kw > 0 THEN RunEndNot(s, i + kw, PathStop)
     ELSE 0

\* a quote followed by a slash
QuoteSlashAt(s, i) == i + 1 <= Len(s) /\ s[i] \in Quotes /\ s[i + 1] = "/"

\* [Quotes]/(api|rest|v\d+)/[^QuoteOrSpace]+
API_REST(s, i) ==
  LET d == RunEndIn(s, i + 3, Digits)
      k == IF HasAt(s, i + 2, kApi) THEN 3
           ELSE IF HasAt(s, i + 2, kRest) THEN 4
           ELSE IF HasAt(s, i + 2, <<"v">>) /\ d >= i + 3 THEN d - i - 1
           ELSE 0
      j == i + 2 + k
      e == RunEndNot(s, j + 1, QuoteOrSpace)
  IN IF QuoteSlashAt(s, i) /\ k > 0 /\ HasAt(s, j, <<"/">>) /\ e >= j + 1
     THEN e ELSE 0

\* [Quotes]/[^QuoteOrSpace]*/(users?|auth|login|logout|register)[^QuoteOrSpace]*
API_AUTH(s, i) ==
  LET e == RunEndNot(s, i + 2, QuoteOrSpace)
  IN IF /\ QuoteSlashAt(s, i)
        /\ \E k \in (i + 2)..e : s[k] = "/" /\ FirstWordAt(s, k + 1, AuthWords) > 0
     THEN e ELSE 0

\* [Quotes][^QuoteOrSpace]*graphql[^QuoteOrSpace]*
API_GRAPHQL(s, i) ==
  LET e == RunEndNot(s, i + 1, QuoteOrSpace)
  IN IF /\ s[i] \in Quotes
        /\ \E k \in (i + 1)..(e - 6) : HasAt(s, k, kGraphql)
     THEN e ELSE 0

\* mutation\s+\w+|query\s+\w+
API_QUERY(s, i) ==
  LET n == IF HasAt(s, i, kMutation) THEN 8
           ELSE IF HasAt(s, i, kQuery) THEN 5 ELSE 0
      w == RunEndIn(s, i + n, WS)
      e == RunEndIn(s, w + 1, WordChars)
  IN IF n > 0 /\ w >= i + n /\ e >= w + 1 THEN e ELSE 0

\* wss?://[^UrlStop]+
API_WS(s, i) ==
  LET n == IF HasAt(s, i, kWs) THEN 5
           ELSE IF HasAt(s, i, kWss) THEN 6 ELSE 0
      e == RunEndNot(s, i + n, UrlStop)
  IN IF n > 0 /\ e >= i + n THEN e ELSE 0

\* [Quotes]/(data|fetch|submit|update|delete|create|get)[^QuoteOrSpace]*
API_CRUD(s, i) ==
  LET n == FirstWordAt(s, i + 2, CrudWords)
  IN IF QuoteSlashAt(s, i) /\ n > 0
     THEN RunEndNot(s, i + 2 + n, QuoteOrSpace) ELSE 0

\* (?i)(GET|POST|PUT|DELETE|PATCH|HEAD|OPTIONS)\s*[,\(\s] : the end of group 1
HTTP_METHODS(s, i) ==
  LET hits == {k \in 1..Len(MethodWords) : HasAtNoCase(s, i, MethodWords[k])}
      n == IF hits = {} THEN 0 ELSE Len(MethodWords[Min(hits)])
  IN IF n > 0 /\ i + n <= Len(s) /\ s[i + n] \in WS \cup {",", "("}
     THEN i + n - 1 ELSE 0

\* the number of rules in API_PATTERNS, in their order
NumApiPatterns == 6

RuleMatch(rule, s, i) ==
  CASE rule = 0 -> URL_REGEX(s, i)
    [] rule = 1 -> API_REST(s, i)
    [] rule = 2 -> API_AUTH(s, i)
    [] rule = 3 -> API_GRAPHQL(s, i)
    [] rule = 4 -> API_QUERY(s, i)
    [] rule = 5 -> API_WS(s, i)
    [] rule = 6 -> API_CRUD(s, i)

\* Regex::captures_iter: the successive non-overlapping matches from i on
\* (the leftmost match, then the matches after its end)
RECURSIVE captures_iter(_, _, _)
captures_iter(rule, s, i) ==
  LET After(first, e) ==
        <<[start |-> first, end |-> e]>> \o captures_iter(rule, s, e + 1)
      Leftmost(starts) ==
        IF starts = {} THEN <<>>
        ELSE After(Min(starts), RuleMatch(rule, s, Min(starts)))
  IN Leftmost({j \in i..Len(s) : RuleMatch(rule, s, j) >= j})

(***************************************************************************)
(* parser/patterns.rs: PatternMatcher                                      *)
(***************************************************************************)
\* the width of the method-inference window, in bytes, on each side
Window == 100
\* candidates shorter than this many bytes are discarded
MinUrlLen == 4

is_valid_url(url) ==
  /\ ~(ByteLen(url) < MinUrlLen)
  /\ \A k \in 1..Len(Extensions) : ~ends_with(url, Extensions[k])

\* Vec::sort followed by Vec::dedup: the distinct strings in ascending order
RECURSIVE SortDedup(_)
SortDedup(S) ==
  IF S = {} THEN <<>>
  ELSE LET m == CHOOSE x \in S : \A y \in S \ {x} : StrLess(x, y)
       IN <<m>> \o SortDedup(S \ {m})

find_urls(content) ==
  LET Str(cap) == trim_quotes(SubSeq(content, cap.start, cap.end))
      Kept(strs) == {strs[k] : k \in {j \in 1..Len(strs) :
                                        strs[j] # <<>> /\ is_valid_url(strs[j])}}
      Urls(caps) == SortDedup(Kept([k \in 1..Len(caps) |-> Str(caps[k])]))
  IN Urls(captures_iter(0, content, 1))

\* the index of the character that starts at byte offset b of s (Len(s) + 1
\* for the end of s), or 0 when b is not a character boundary
CharAtByte(s, b) ==
  LET at == {j \in 1..(Len(s) + 1) : ByteOffset(s, j) = b}
  IN IF at = {} THEN 0 ELSE Min(at)

\* pos is the index of the first character of the match; the code works with
\* its byte offset.  Slicing a str off a character boundary panics.
find_http_method_near(content, pos) ==
  LET Method(snippet, hits) ==
        IF hits = {} THEN None
        ELSE Some(to_uppercase(
               SubSeq(snippet, Min(hits), HTTP_METHODS(snippet, Min(hits)))))
      Search(snippet) ==
        Method(snippet, {k \in 1..Len(snippet) : HTTP_METHODS(snippet, k) > 0})
      Slice(first, last) ==
        IF first = 0 \/ last = 0 THEN [panic |-> TRUE, method |-> None]
        ELSE [panic |-> FALSE, method |-> Search(SubSeq(content, first, last - 1))]
      Near(bpos) ==
        Slice(CharAtByte(content, IF bpos >= Window THEN bpos - Window ELSE 0),
              CharAtByte(content, Min({bpos + Window, ByteLen(content)})))
  IN Near(ByteOffset(content, pos))

\* the endpoint built for one match of an API-signature rule
ApiEndpoint(content, cap, source) ==
  LET Sourced(e1) == IF source # None THEN with_source(e1, source[1]) ELSE e1
      Built(e0, near) ==
        [panic |-> near.panic,
         endpoint |-> Sourced(IF near.method # None
                              THEN with_method(e0, near.method[1]) ELSE e0)]
      Typed(url) ==
        EndpointNew(url, IF contains(url, kGraphql) THEN "GraphQL"
                         ELSE IF starts_with(url, <<"w", "s">>) THEN "WebSocket"
                         ELSE "Rest")
  IN Built(Typed(trim_quotes(SubSeq(content, cap.start, cap.end))),
           find_http_method_near(content, cap.start))

\* [panic, endpoints]: the endpoints of every rule in the order of the rules,
\* or a panic of the method inference
find_api_endpoints(content, source) ==
  LET Collect(built) ==
        [panic |-> \E k \in 1..Len(built) : built[k].panic,
         endpoints |-> [k \in 1..Len(built) |-> built[k].endpoint]]
      Build(caps) ==
        Collect([k \in 1..Len(caps) |-> ApiEndpoint(content, caps[k], source)])
  IN Build(Concat([r \in 1..NumApiPatterns |-> captures_iter(r, content, 1)]))

(***************************************************************************)
(* parser/mod.rs: Parser                                                   *)
(***************************************************************************)
\* any api counts: the slashes around it are not asked for
determine_endpoint_type_any_api(url) ==
  IF contains(url, kGraphql) \/ contains(url, <<"/", "g", "q", "l">>) THEN "GraphQL"
  ELSE IF starts_with(url, kWs) \/ starts_with(url, kWss) THEN "WebSocket"
  ELSE IF contains(url, kApi) \/ contains(url, <<"/", "v", "1", "/">>)
          \/ contains(url, <<"/", "v", "2", "/">>) THEN "Rest"
  ELSE "Unknown"

\* the order changed: the Rest check comes first
determine_endpoint_type_rest_first(url) ==
  IF \/ contains(url, <<"/", "a", "p", "i", "/">>)
     \/ contains(url, <<"/", "v", "1", "/">>)
     \/ contains(url, <<"/", "v", "2", "/">>) THEN "Rest"
  ELSE IF contains(url, kGraphql) \/ contains(url, <<"/", "g", "q", "l">>) THEN "GraphQL"
  ELSE IF starts_with(url, kWs) \/ starts_with(url, kWss) THEN "WebSocket"
  ELSE "Unknown"

determine_endpoint_type(url) ==
  IF contains(url, kGraphql) \/ contains(url, <<"/", "g", "q", "l">>) THEN "GraphQL"
  ELSE IF starts_with(url, kWs) \/ starts_with(url, kWss) THEN "WebSocket"
  ELSE IF \/ contains(url, <<"/", "a", "p", "i", "/">>)
          \/ contains(url, <<"/", "v", "1", "/">>)
          \/ contains(url, <<"/", "v", "2", "/">>) THEN "Rest"
  ELSE "Unknown"

\* Option<Vec<String>>
extract_params(url) ==
  LET Found(params) == IF params # <<>> THEN Some(params) ELSE None
      Keys(pieces) == Found([k \in 1..Len(pieces) |-> Head(split(pieces[k], "="))])
      Query(query_start) ==
        IF query_start > 0
        THEN Keys(split(SubSeq(url, query_start + 1, Len(url)), "&"))
        ELSE None
  IN Query(find(url, <<"?">>))

\* the endpoint of one generic-rule url
GenericEndpoint(url, source) ==
  LET Params(e1, ps) == IF ps # None THEN with_params(e1, ps[1]) ELSE e1
      Sourced(e0) == IF source # None THEN with_source(e0, source[1]) ELSE e0
  IN Params(Sourced(EndpointNew(url, determine_endpoint_type(url))),
            extract_params(url))

\* [panic, endpoints]: Ok(endpoints), or the panic of find_http_method_near
parse_js(content, source) ==
  LET Both(urls, api) ==
        [panic |-> api.panic,
         endpoints |-> IF api.panic THEN <<>>
                       ELSE [k \in 1..Len(urls) |-> GenericEndpoint(urls[k], source)]
                            \o api.endpoints]
  IN Both(find_urls(content), find_api_endpoints(content, source))

(***************************************************************************)
(* The url crate, as far as the crawler uses it: http and https URLs with   *)
(* a host and a path.  A Url is [scheme, host, path]; its string is         *)
(* scheme://host/path.                                                      *)
(***************************************************************************)
kSep == <<":", "/", "/">>

\* the parse check lost: a string without a scheme counts as a path on an
\* empty host
UrlParseLenient(s) ==
  [ok |-> TRUE, url |-> [scheme |-> <<"h","t","t","p">>, host |-> <<>>, path |-> s]]

\* Url::parse: [ok, url]; a string without one of the two schemes or
\* without a host does not parse (RelativeUrlWithoutBase, EmptyHost)
UrlParse(s) ==
  LET NoUrlParsed == [ok |-> FALSE, url |-> [scheme |-> <<>>, host |-> <<>>, path |-> <<>>]]
      Parts(n, h, path) ==
        IF h >= n + 1
        THEN [ok |-> TRUE,
              url |-> [scheme |-> SubSeq(s, 1, n - 3), host |-> SubSeq(s, n + 1, h),
                       path |-> IF path = <<>> THEN <<"/">> ELSE path]]
        ELSE NoUrlParsed
      Host(n, h) == Parts(n, h, SubSeq(s, h + 1, Len(s)))
      Scheme(n) == IF n > 0 THEN Host(n, RunEndNot(s, n + 1, {"/"})) ELSE NoUrlParsed
  IN Scheme(IF HasAt(s, 1, kHttp) THEN 7 ELSE IF HasAt(s, 1, kHttps) THEN 8 ELSE 0)

UrlToString(u) == u.scheme \o kSep \o u.host \o u.path

\* Url::join: an absolute reference replaces the base, a reference that
\* starts with // keeps the scheme, one that starts with / keeps the host, any
\* other is resolved against the directory of the base path
UrlJoin(base, ref) ==
  IF contains(ref, kSep) THEN UrlParse(ref)
  ELSE IF starts_with(ref, <<"/", "/">>) THEN UrlParse(base.scheme \o <<":">> \o ref)
  ELSE IF starts_with(ref, <<"/">>) THEN [ok |-> TRUE, url |-> [base EXCEPT !.path = ref]]
  ELSE [ok |-> TRUE,
        url |-> [base EXCEPT !.path =
                   SubSeq(base.path, 1,
                          Max({k \in 1..Len(base.path) : base.path[k] = "/"}))
                     \o ref]]

(***************************************************************************)
(* crawler/mod.rs: extract_scripts                                         *)
(***************************************************************************)
kScript == <<"<", "s", "c", "r", "i", "p", "t">>
kSrcEq == <<"s", "r", "c", "=">>
SrcQuotes == {"\"", "'"}

\* <script[^>]+src=[SrcQuotes]([^SrcQuotes]+)[SrcQuotes] at i: the places k of
\* src= for which the rest of the regex matches; the greedy [^>]+ takes the last
ScriptSrcAt(s, i) ==
  LET Closes(k, e) == e >= k + 5 /\ e < Len(s)
  IN IF ~HasAt(s, i, kScript) THEN {}
     ELSE {k \in (i + 8)..RunEndNot(s, i + 7, {">"}) :
             /\ HasAt(s, k, kSrcEq)
             /\ k + 4 <= Len(s) /\ s[k + 4] \in SrcQuotes
             /\ Closes(k, RunEndNot(s, k + 5, SrcQuotes))}

\* the captured src values of the successive matches from i on
RECURSIVE ScriptSrcs(_, _)
ScriptSrcs(s, i) ==
  LET Capture(k, e) == <<SubSeq(s, k + 5, e)>> \o ScriptSrcs(s, e + 2)
      Match(k) == Capture(k, RunEndNot(s, k + 5, SrcQuotes))
      Leftmost(starts) ==
        IF starts = {} THEN <<>> ELSE Match(Max(ScriptSrcAt(s, Min(starts))))
  IN Leftmost({j \in i..Len(s) : ScriptSrcAt(s, j) # {}})

\* the absolute URLs of the script tags, in page order
extract_scripts(html, base_url) ==
  LET Keep(joined) ==
        Concat([k \in 1..Len(joined) |->
                  IF joined[k].ok THEN <<UrlToString(joined[k].url)>> ELSE <<>>])
      Join(srcs) == Keep([k \in 1..Len(srcs) |-> UrlJoin(base_url, srcs[k])])
  IN Join(ScriptSrcs(html, 1))

(***************************************************************************)
(* crawler/client.rs: check_robots_txt                                     *)
(***************************************************************************)
kRobots == <<"/", "r", "o", "b", "o", "t", "s", ".", "t", "x", "t">>
kDisallow == <<"D", "i", "s", "a", "l", "l", "o", "w", ":", " ">>

robots_url(url) == url.scheme \o kSep \o url.host \o kRobots

\* allowed == !robots_content.contains("Disallow: " + url.path())
RobotsAllows(robots_content, url) == ~contains(robots_content, kDisallow \o url.path)

\* Result<bool> of check_robots_txt for the Result<String> of the get: only
\* Error::HttpError resolves to allowed, every other error is returned
RobotsVerdict(res, url) ==
  IF res.ok THEN [ok |-> TRUE, allowed |-> RobotsAllows(res.body, url), err |-> "none"]
  ELSE IF res.err = "HttpError" THEN [ok |-> TRUE, allowed |-> TRUE, err |-> "none"]
  ELSE [ok |-> FALSE, allowed |-> FALSE, err |-> res.err]

\* the Result<String> of HttpClient::get for what the network does with the
\* request: a timeout is TimeoutError, a connection failure is TlsError, any
\* other send error, a non-2xx status and an unreadable body are HttpError
GetResult(resp) ==
  CASE resp.outcome = "ok" -> [ok |-> TRUE, body |-> resp.body, err |-> "none"]
    [] resp.outcome = "timeout" -> [ok |-> FALSE, body |-> <<>>, err |-> "TimeoutError"]
    [] resp.outcome = "connect" -> [ok |-> FALSE, body |-> <<>>, err |-> "TlsError"]
    [] resp.outcome \in {"send", "status", "body"} ->
         [ok |-> FALSE, body |-> <<>>, err |-> "HttpError"]

(***************************************************************************)
(* plugins/mod.rs: PluginManager.  A loaded plugin is [filter, transform]:  *)
(* what its filter_endpoint and transform_endpoint callbacks do ("absent"   *)
(* when the module has no such attribute).  The dict handed to a callback   *)
(* has the keys url, method, endpoint_type, source, line, params, each an   *)
(* optional value (None: the key is missing or holds another type).         *)
(***************************************************************************)
TypeName(endpoint_type) ==
  CASE endpoint_type = "Rest" -> "rest"
    [] endpoint_type = "GraphQL" -> "graphql"
    [] endpoint_type = "WebSocket" -> "websocket"
    [] endpoint_type = "Unknown" -> "unknown"

endpoint_to_dict(ep) ==
  [url |-> Some(ep.url), method |-> ep.method,
   endpoint_type |-> Some(TypeName(ep.endpoint_type)),
   source |-> ep.source, line |-> ep.line, params |-> ep.params]

\* [ok, endpoint]: Err(PluginError) when the dict has no url string
dict_to_endpoint(dict) ==
  LET Opt(e, field, With(_, _)) == IF field # None THEN With(e, field[1]) ELSE e
      Typed(name) ==
        EndpointNew(IF dict.url = None THEN <<>> ELSE dict.url[1],
                    CASE name = "rest" -> "Rest"
                      [] name = "graphql" -> "GraphQL"
                      [] name = "websocket" -> "WebSocket"
                      [] OTHER -> "Unknown")
      e0 == Typed(IF dict.endpoint_type = None THEN "unknown" ELSE dict.endpoint_type[1])
  IN [ok |-> dict.url # None,
      endpoint |-> Opt(Opt(Opt(Opt(e0, dict.method, with_method),
                               dict.source, with_source),
                           dict.line, with_line),
                       dict.params, with_params)]

\* load_plugin: [ok, plugins]; a file is [loads, plugin]: a file that cannot
\* be read or is not a Python module adds nothing and gives Err
load_plugin(plugins, file) ==
  IF file.loads THEN [ok |-> TRUE, plugins |-> Append(plugins, file.plugin)]
  ELSE [ok |-> FALSE, plugins |-> plugins]

\* PluginManager::new, then let _ = load_plugin(path) for each plugin file
RECURSIVE LoadPlugins(_, _)
LoadPlugins(plugins, plugin_files) ==
  IF plugin_files = <<>> THEN plugins
  ELSE LoadPlugins(load_plugin(plugins, Head(plugin_files)).plugins,
                   Tail(plugin_files))

\* what the filter_endpoint callback of plugin p answers for the dict:
\* "absent", "raise", "nonbool", "true" or "false"
FilterCall(p, dict) ==
  CASE p.filter = "drop_unknown" ->
         IF dict.endpoint_type = Some("unknown") THEN "false" ELSE "true"
    [] p.filter = "keep" -> "true"
    [] OTHER -> p.filter

\* what the transform_endpoint callback of plugin p answers for the dict:
\* [kind, dict] with kind "absent", "raise", "nondict" or "dict"
TransformCall(p, dict) ==
  CASE p.transform = "same" -> [kind |-> "dict", dict |-> dict]
    [] p.transform = "set_get" ->
         [kind |-> "dict", dict |-> [dict EXCEPT !.method = Some(<<"G", "E", "T">>)]]
    [] p.transform = "to_root" ->
         [kind |-> "dict", dict |-> [dict EXCEPT !.url = Some(<<"/">>)]]
    [] p.transform = "no_url" ->
         [kind |-> "dict", dict |-> [dict EXCEPT !.url = None]]
    [] p.transform = "root_if_method" ->
         [kind |-> "dict",
          dict |-> IF dict.method # None THEN [dict EXCEPT !.url = Some(<<"/">>)]
                   ELSE dict]
    [] OTHER -> [kind |-> p.transform, dict |-> dict]

\* the default turned around: kept only when some callback answers true
filter_endpoint_default_false(plugins, ep) ==
  \E k \in 1..Len(plugins) : FilterCall(plugins[k], endpoint_to_dict(ep)) = "true"

\* false as soon as one callback answers the bool false
filter_endpoint(plugins, ep) ==
  ~\E k \in 1..Len(plugins) : FilterCall(plugins[k], endpoint_to_dict(ep)) = "false"

\* the conversion unchecked: the endpoint built from the dict is taken even
\* when the dict has no url
TransformOneUnchecked(p, ep) ==
  LET Answer(r) == IF r.kind = "dict" THEN dict_to_endpoint(r.dict).endpoint ELSE ep
  IN Answer(TransformCall(p, endpoint_to_dict(ep)))

\* the endpoint after the transform of one plugin
TransformOne(p, ep) ==
  LET Converted(new_ep) == IF new_ep.ok THEN new_ep.endpoint ELSE ep
      Answer(r) == IF r.kind = "dict" THEN Converted(dict_to_endpoint(r.dict)) ELSE ep
  IN Answer(TransformCall(p, endpoint_to_dict(ep)))

RECURSIVE transform_endpoint(_, _)
transform_endpoint(plugins, ep) ==
  IF plugins = <<>> THEN ep
  ELSE transform_endpoint(Tail(plugins), TransformOne(Head(plugins), ep))

(***************************************************************************)
(* scanner.rs: the hook pipeline and the configured filter                 *)
(***************************************************************************)
\* for ep in endpoints: if filter_endpoint(ep) push transform_endpoint(ep)
RECURSIVE ApplyPlugins(_, _)
ApplyPlugins(plugins, eps) ==
  IF eps = <<>> THEN <<>>
  ELSE (IF filter_endpoint(plugins, Head(eps))
        THEN <<transform_endpoint(plugins, Head(eps))>> ELSE <<>>)
       \o ApplyPlugins(plugins, Tail(eps))

\* processed_endpoints.retain(|e| e.url.contains(filter))
ApplyFilter(filter_pattern, eps) ==
  LET Keeps(e) == contains(e.url, filter_pattern[1])
  IN IF filter_pattern = None THEN eps ELSE SelectSeq(eps, Keeps)

(***************************************************************************)
(* The state: one Scanner (its Crawler, HttpClient and PluginManager), the *)
(* network, the file system, and the tasks that call the Scanner.          *)
(***************************************************************************)
VARIABLES
  cfg,       \* ScanConfig: rate_limit, max_concurrent, respect_robots_txt,
             \* filter_pattern, the plugin files load_plugin was called with
             \* and the plugins that were loaded from them
  server,    \* the network: what each URL answers, [outcome, body]
  files,     \* the file system: the text of each readable path
  visited,   \* Crawler.visited
  permits,   \* the free permits of Crawler.semaphore
  tokens,    \* the cells the rate limiter can hand out at once
  clock,     \* time since the limiter was created, in periods of 1/rate_limit
             \* second, saturating at MaxClock
  pc,        \* where each task is
  todo,      \* the calls each task still makes, in order
  loc,       \* the locals of the call each task is in
  ret,       \* what the calls of each task returned, in order
  sent,      \* how many requests went out for each URL
  began      \* the clock at the first call

vars == <<cfg, server, files, visited, permits, tokens, clock, pc, todo, loc, ret,
          sent, began>>

NumTasks == 2
Tasks == 1..NumTasks
\* the clock saturates here
MaxClock == 3

NoUrl == [scheme |-> <<>>, host |-> <<>>, path |-> <<>>]

\* the locals of a call: op, url (the argument), base (the parsed entry URL),
\* phase (which fetch of scan_url is running: "robots", "html", "asset",
\* "main", or "fetch" for a direct fetch_js), cur (the URL being fetched),
\* assets (the scripts still to fetch), all (all_endpoints of scan_url,
\* endpoints of parse_file), permit (a
\* semaphore permit is held).  History kept for the properties: seen (cur was
\* in visited at the membership check), issued (the requests of the current
\* fetch), took (permits and tokens the current fetch took), robots (the
\* verdict of the robots check), crawl (Some(assets) once crawl returned),
\* crawl_sent and crawl_added (requests and visited inserts of crawl's
\* fetch_html), entry (Some(body) once a request for the entry URL
\* succeeded), log (one entry for every fetch_html / fetch_js of the call that
\* returned: its url, phase, seen, issued, took and its Result), start
\* (visited when the call began)
NoLocals ==
  [op |-> "none", url |-> <<>>, base |-> NoUrl, phase |-> "none", cur |-> <<>>,
   assets |-> <<>>, all |-> <<>>, permit |-> FALSE,
   seen |-> FALSE, issued |-> 0, took |-> 0, robots |-> "none", crawl |-> None,
   crawl_sent |-> 0, crawl_added |-> {}, entry |-> None, log |-> <<>>,
   start |-> {}]

Sent(u) == IF u \in DOMAIN sent THEN sent[u] ELSE 0
NumSent == LET RECURSIVE Sum(_)
               Sum(S) == IF S = {} THEN 0
                         ELSE LET u == CHOOSE x \in S : TRUE
                              IN sent[u] + Sum(S \ {u})
           IN Sum(DOMAIN sent)

\* what the network does with a request for u
Respond(u) ==
  IF u \in DOMAIN server THEN server[u] ELSE [outcome |-> "connect", body |-> <<>>]

\* requests between send and response
InFlight == {t \in Tasks : pc[t] = "get_wait"}

(***************************************************************************)
(* Crawler::new, HttpClient::new                                           *)
(***************************************************************************)
\* Semaphore::new(config.max_concurrent)
SemaphoreNew(config) == config.max_concurrent
\* Quota::per_second(rate_limit): a burst of rate_limit cells, one more cell
\* every 1/rate_limit second
QuotaBurst(config) == config.rate_limit
\* DashSet::new()
VisitedNew == {}

(***************************************************************************)
(* The steps of a call                                                     *)
(***************************************************************************)
\* the membership check lost: no URL counts as visited
AlreadyVisitedNever(url) == FALSE

\* self.visited.contains(url)
AlreadyVisited(url) == url \in visited

\* the verdict ignored: crawl goes on whatever robots.txt says
CrawlProceedsAlways(verdict) == TRUE

\* crawl goes on to fetch the entry page unless the robots check said no
CrawlProceeds(verdict) == verdict.allowed

Returned(l, ok, err, value) == [call |-> l, ok |-> ok, err |-> err, value |-> value]

\* the fetch of url begins: the membership check is next
BeginFetch(l, phase, url) ==
  [l EXCEPT !.phase = phase, !.cur = url, !.seen = FALSE, !.issued = 0, !.took = 0]

\* scan_url after crawl returned and after each asset: the next asset, then
\* the main page
NextFetch(l) ==
  IF l.assets # <<>> THEN BeginFetch(l, "asset", Head(l.assets))
  ELSE BeginFetch(l, "main", l.url)

\* the two steps swapped: the configured filter sees the urls as extracted
FinishFilterFirst(l) ==
  Returned(l, TRUE, "none",
           ApplyPlugins(cfg.plugins, ApplyFilter(cfg.filter_pattern, l.all)))

\* the end of scan_url: hooks, then the configured filter
Finish(l) ==
  Returned(l, TRUE, "none",
           ApplyFilter(cfg.filter_pattern, ApplyPlugins(cfg.plugins, l.all)))

\* the urls extracted from an asset followed: they are fetched as assets too
RemainingAssetsFollowed(l, endpoints) ==
  Tail(l.assets) \o [k \in 1..Len(endpoints) |-> endpoints[k].url]

\* for asset in assets: the loop goes on with the assets crawl returned,
\* whatever was extracted from the asset it just parsed
RemainingAssets(l, endpoints) == Tail(l.assets)

\* What the call does with the Result res of a fetch that just returned:
\* [pc, loc, ret] where ret is Some(what the call returns) when it ends here
AfterFetch(l0, res) ==
  LET NoEndpoints == [panic |-> FALSE, endpoints |-> <<>>]
      \* crawl: if let Ok(html) = fetch_html(url) { extract_scripts }
      Crawled(l, assets) ==
        [pc |-> "check", ret |-> None,
         loc |-> NextFetch([l EXCEPT !.assets = assets, !.crawl = Some(assets)])]
      \* scan_url: match fetch_js { Ok(js) => parse_js(js)?, Err(e) => warn }
      Parsed(l, parsed) ==
        IF parsed.panic THEN [pc |-> "panicked", loc |-> l, ret |-> None]
        ELSE IF l.phase = "asset"
        THEN [pc |-> "check", ret |-> None,
              loc |-> NextFetch([l EXCEPT !.all = @ \o parsed.endpoints,
                                          !.assets =
                                            RemainingAssets(l, parsed.endpoints)])]
        ELSE [pc |-> "idle", loc |-> NoLocals,
              ret |-> Some(Finish([l EXCEPT !.all = @ \o parsed.endpoints]))]
      Step(l) ==
        CASE l.phase = "html" ->
               Crawled(l, IF res.ok THEN extract_scripts(res.body, l.base) ELSE <<>>)
          [] l.phase \in {"asset", "main"} ->
               Parsed(l, IF res.ok THEN parse_js(res.body, Some(l.cur))
                         ELSE NoEndpoints)
          [] l.phase = "fetch" ->
               [pc |-> "idle", loc |-> NoLocals,
                ret |-> Some(Returned(l, res.ok, res.err, res.body))]
  IN Step([l0 EXCEPT !.log = @ \o <<[url |-> l0.cur, phase |-> l0.phase,
                                     seen |-> l0.seen, issued |-> l0.issued,
                                     took |-> l0.took, res |-> res]>>])

\* What crawl does with the Result of the robots.txt request
AfterRobots(l, res) ==
  LET Verdict(v, lv) ==
        IF ~v.ok
        THEN \* check_robots_txt(..).await? and crawl(url).await?
             [pc |-> "idle", loc |-> NoLocals,
              ret |-> Some(Returned(lv, FALSE, v.err, <<>>))]
        ELSE IF CrawlProceeds(v)
        THEN [pc |-> "check", loc |-> BeginFetch(lv, "html", lv.url), ret |-> None]
        ELSE \* return Ok(Vec::new())
             [pc |-> "check", ret |-> None,
              loc |-> NextFetch([lv EXCEPT !.assets = <<>>, !.crawl = Some(<<>>)])]
      Checked(v) ==
        Verdict(v, [l EXCEPT !.robots = IF ~v.ok THEN "error"
                                        ELSE IF v.allowed THEN "allowed"
                                        ELSE "disallowed"])
  IN Checked(RobotsVerdict(res, l.base))

Goto(t, next) ==
  /\ pc' = [pc EXCEPT ![t] = next.pc]
  /\ loc' = [loc EXCEPT ![t] = next.loc]
  /\ ret' = IF next.ret = None THEN ret ELSE [ret EXCEPT ![t] = @ \o next.ret]

\* A task calls scan_url or fetch_js.  scan_url begins with crawl, which
\* parses the URL and, when respect_robots_txt is set, asks for robots.txt.
Call(t) ==
  /\ pc[t] = "idle"
  /\ todo[t] # <<>>
  /\ Head(todo[t]).op \in {"scan_url", "fetch_js"}
  /\ todo' = [todo EXCEPT ![t] = Tail(@)]
  /\ LET c == Head(todo[t])
         parsed == UrlParse(c.url)
         l == [NoLocals EXCEPT !.op = c.op, !.url = c.url, !.base = parsed.url,
                               !.start = visited]
     IN Goto(t, IF c.op = "fetch_js"
                THEN [pc |-> "check", loc |-> BeginFetch(l, "fetch", c.url), ret |-> None]
                ELSE IF ~parsed.ok
                THEN [pc |-> "idle", loc |-> NoLocals,
                      ret |-> Some(Returned(l, FALSE, "UrlParseError", <<>>))]
                ELSE IF cfg.respect_robots_txt
                THEN [pc |-> "get_token", ret |-> None,
                      loc |-> BeginFetch(l, "robots", robots_url(parsed.url))]
                ELSE [pc |-> "check", loc |-> BeginFetch(l, "html", c.url),
                      ret |-> None])
  /\ began' = IF began = None THEN Some(clock) ELSE began
  /\ UNCHANGED <<cfg, server, files, visited, permits, tokens, clock, sent>>

\* fetch_html / fetch_js: if self.visited.contains(url) { return Ok(String::new()) }
FetchCheck(t) ==
  /\ pc[t] = "check"
  /\ LET l == [loc[t] EXCEPT !.seen = loc[t].cur \in visited]
     IN Goto(t, IF AlreadyVisited(l.cur)
                THEN AfterFetch(l, [ok |-> TRUE, body |-> <<>>, err |-> "none"])
                ELSE [pc |-> "insert", loc |-> l, ret |-> None])
  /\ UNCHANGED <<cfg, server, files, visited, permits, tokens, clock, todo, sent,
                 began>>

\* self.visited.insert(url.to_string())
FetchInsert(t) ==
  /\ pc[t] = "insert"
  /\ visited' = visited \cup {loc[t].cur}
  /\ pc' = [pc EXCEPT ![t] = "acquire"]
  /\ loc' = [loc EXCEPT ![t].crawl_added =
               IF loc[t].phase = "html" THEN @ \cup {loc[t].cur} ELSE @]
  /\ UNCHANGED <<cfg, server, files, permits, tokens, clock, todo, ret, sent, began>>

\* let _permit = self.semaphore.acquire().await
FetchAcquire(t) ==
  /\ pc[t] = "acquire"
  /\ permits > 0
  /\ permits' = permits - 1
  /\ pc' = [pc EXCEPT ![t] = "get_token"]
  /\ loc' = [loc EXCEPT ![t].permit = TRUE, ![t].took = @ + 1]
  /\ UNCHANGED <<cfg, server, files, visited, tokens, clock, todo, ret, sent, began>>

\* the wait for a cell lost: a request goes out whether or not a cell is free
UntilReadyAtOnce(t) == TRUE

\* HttpClient::get: self.rate_limiter.until_ready().await
UntilReady(t) == tokens > 0

GetUntilReady(t) ==
  /\ pc[t] = "get_token"
  /\ UntilReady(t)
  /\ tokens' = tokens - 1
  /\ pc' = [pc EXCEPT ![t] = "get_send"]
  /\ loc' = [loc EXCEPT ![t].took = @ + 1]
  /\ UNCHANGED <<cfg, server, files, visited, permits, clock, todo, ret, sent, began>>

\* HttpClient::get: self.client.get(url).send(): the request goes out
GetSend(t) ==
  /\ pc[t] = "get_send"
  /\ pc' = [pc EXCEPT ![t] = "get_wait"]
  /\ sent' = [u \in DOMAIN sent \cup {loc[t].cur} |->
                IF u = loc[t].cur THEN Sent(u) + 1 ELSE sent[u]]
  /\ loc' = [loc EXCEPT ![t].issued = @ + 1,
                        ![t].crawl_sent = IF loc[t].phase = "html" THEN @ + 1 ELSE @]
  /\ UNCHANGED <<cfg, server, files, visited, permits, tokens, clock, todo, ret,
                 began>>

\* HttpClient::get: the response or the failure arrives; fetch_html / fetch_js
\* return it and drop their permit; the caller goes on
GetResponse(t) ==
  /\ pc[t] = "get_wait"
  /\ LET Arrive(l0, res) ==
           IF l0.phase = "robots" THEN AfterRobots([l0 EXCEPT !.permit = FALSE], res)
           ELSE AfterFetch([l0 EXCEPT !.permit = FALSE,
                                      !.entry = IF res.ok /\ l0.cur = l0.url
                                                THEN Some(res.body) ELSE @],
                           res)
     IN /\ permits' = IF loc[t].permit THEN permits + 1 ELSE permits
        /\ Goto(t, Arrive(loc[t], GetResult(Respond(loc[t].cur))))
  /\ UNCHANGED <<cfg, server, files, visited, tokens, clock, todo, sent, began>>

\* 1/rate_limit second passes: the limiter has one more cell, up to its burst
Tick ==
  /\ tokens' = Min({tokens + 1, QuotaBurst(cfg)})
  /\ clock' = Min({clock + 1, MaxClock})
  /\ UNCHANGED <<cfg, server, files, visited, permits, pc, todo, loc, ret, sent,
                 began>>

\* the read failure swallowed: a file that cannot be read counts as empty
read_to_string_or_default(path) ==
  [ok |-> TRUE, text |-> IF path \in DOMAIN files THEN files[path] ELSE <<>>]

\* fs::read_to_string(path): [ok, text]; Err(io::Error) for a path that does
\* not exist or cannot be read
read_to_string(path) ==
  IF path \in DOMAIN files THEN [ok |-> TRUE, text |-> files[path]]
  ELSE [ok |-> FALSE, text |-> <<>>]

\* Scanner::parse_file: read the file, extract, run the hooks.  A file that
\* cannot be read is Err(IoError).
ParseFile(t) ==
  /\ pc[t] = "idle"
  /\ todo[t] # <<>>
  /\ Head(todo[t]).op = "parse_file"
  /\ todo' = [todo EXCEPT ![t] = Tail(@)]
  /\ LET Parsed(l, parsed) ==
           IF parsed.panic THEN [pc |-> "panicked", loc |-> l, ret |-> None]
           ELSE [pc |-> "idle", loc |-> NoLocals,
                 ret |-> Some(Returned([l EXCEPT !.all = parsed.endpoints], TRUE, "none",
                                       ApplyPlugins(cfg.plugins, parsed.endpoints)))]
         Read(l, path, content) ==
           IF ~content.ok
           THEN [pc |-> "idle", loc |-> NoLocals,
                 ret |-> Some(Returned(l, FALSE, "IoError", <<>>))]
           ELSE Parsed(l, parse_js(content.text, Some(path)))
         Enter(path) ==
           Read([NoLocals EXCEPT !.op = "parse_file", !.url = path, !.start = visited],
                path, read_to_string(path))
     IN Goto(t, Enter(Head(todo[t]).url))
  /\ UNCHANGED <<cfg, server, files, visited, permits, tokens, clock, sent, began>>

(***************************************************************************)
(* The texts of the model                                                  *)
(***************************************************************************)
EntryUrl == <<"h","t","t","p",":","/","/","h","/","a">>
\* not a URL: no scheme
BadUrl == <<"h","/","a">>
ScriptS == <<"h","t","t","p",":","/","/","h","/","s",".","j","s">>
ScriptT == <<"h","t","t","p",":","/","/","h","/","t",".","j","s">>
RobotsUrl ==
  <<"h","t","t","p",":","/","/","h","/","r","o","b","o","t","s",".","t","x","t">>
\* a page with one script tag and an endpoint of its own
PageOne ==
  <<"<","s","c","r","i","p","t"," ","s","r","c","=","\"","/","s",".","j",
    "s","\"",">"," ","\"","/","a","p","i","/","e","\"">>
\* a page with two script tags, the second relative
PageTwo ==
  <<"<","s","c","r","i","p","t"," ","s","r","c","=","\"","/","s",".","j",
    "s","\"",">","<","s","c","r","i","p","t"," ","s","r","c","=","\"","t",
    ".","j","s","\"",">">>
JsGet == <<"g","e","t","(","\"","/","a","p","i","/","x","\"",")">>
JsKey == <<"\"","/","v","1","/","y","?","k","=","1","\"">>
\* a script that names the other script, in a script tag of its own
JsLink == <<"<","s","c","r","i","p","t"," ","s","r","c","=","\"">> \o ScriptT
            \o <<"\"",">">>
\* an API path whose window of Window bytes starts inside a two-byte character
JsWide ==
  <<"U+00E9">> \o [i \in 1..(Window - 1) |-> " "]
    \o <<"\"","/","a","p","i","/","z","\"">>
RobotsDeny == <<"D","i","s","a","l","l","o","w",":"," ","/","a">>
RobotsFree == <<"D","i","s","a","l","l","o","w",":"," ","/","b">>
FilterApi == <<"/","a","p","i">>
FilePath == <<"f",".","j","s">>
MissingPath == <<"g",".","j","s">>

\* two calls, one with an absolute URL and one with a rooted API path
FetchAxiosText ==
  <<"f","e","t","c","h","(","\"","h","t","t","p","s",":","/","/","a","p",
    "i",".","e","x","a","m","p","l","e",".","c","o","m","/","u","s","e","r",
    "s","\"",")",";"," ","a","x","i","o","s",".","g","e","t","(","\"","/",
    "a","p","i","/","v","1","/","p","o","s","t","s","\"",")",";">>
\* a gql query template followed by a fetch of /graphql with method POST
GqlFetchText ==
  <<"g","q","l","U+0060"," ","q","u","e","r","y"," ","G","e","t","U","s",
    "e","r"," ","{"," ","u","s","e","r"," ","{"," ","i","d"," ","n","a","m",
    "e"," ","}"," ","}"," ","U+0060",";"," ","f","e","t","c","h","(","\"",
    "/","g","r","a","p","h","q","l","\"",","," ","{","m","e","t","h","o",
    "d",":"," ","\"","P","O","S","T","\"",","," ","b","o","d","y",":"," ",
    "q","}",")",";">>
\* POST, then multi-byte characters that fill the 100 bytes before a match
\* which is fewer than 100 characters away from POST
MethodWideText ==
  <<"P","O","S","T"," ">> \o [i \in 1..(Window \div 2 - 2) |-> "U+00E9"]
    \o <<"\"","/","a","p","i","/","x","\"">>
\* POST, then a match that begins more than 100 characters after it
MethodFarText ==
  <<"P","O","S","T"," ">> \o [i \in 1..Window |-> " "]
    \o <<"\"","/","a","p","i","/","x","\"">>
\* a gql query template on one line, the path /v1/query on the next
GqlLinesText ==
  <<"g","q","l","U+0060","q","U+0060","\n","\"","/","v","1","/","q","u","e","r","y","\"">>
ScenarioTexts ==
  {FetchAxiosText, GqlFetchText, MethodWideText, MethodFarText, GqlLinesText}

Ok(body) == [outcome |-> "ok", body |-> body]
Fails(outcome) == [outcome |-> outcome, body |-> <<>>]
Failures == {"timeout", "connect", "send", "status", "body"}

ScanUrl(url) == [op |-> "scan_url", url |-> url]
FetchJs(url) == [op |-> "fetch_js", url |-> url]
ParseFileOf(path) == [op |-> "parse_file", url |-> path]

\* one plugin whose callbacks answer, one whose callbacks fail
GoodPlugin == [filter |-> "drop_unknown", transform |-> "set_get"]
BadPlugin == [filter |-> "raise", transform |-> "no_url"]
\* a plugin that rewrites the url of every endpoint that has a method
RewritePlugin == [filter |-> "keep", transform |-> "root_if_method"]
\* plugins whose callbacks answer with the wrong type, or raise in transform
OddPlugin == [filter |-> "nonbool", transform |-> "nondict"]
ThrowPlugin == [filter |-> "keep", transform |-> "raise"]

\* a plugin file that holds the plugin, and one that is not a Python module
PluginFile(plugin) == [loads |-> TRUE, plugin |-> plugin]
BrokenFile == [loads |-> FALSE, plugin |-> [filter |-> "absent", transform |-> "absent"]]
\* the plugin files a Scanner is built with: none, one that works, and one
\* that works after one that does not load and one whose callbacks fail
BasicPluginFiles ==
  { <<>>,
    <<PluginFile(GoodPlugin)>>,
    <<BrokenFile, PluginFile(BadPlugin), PluginFile(GoodPlugin)>> }
PluginFiles ==
  BasicPluginFiles \cup
  { <<PluginFile(RewritePlugin)>>,
    <<PluginFile(OddPlugin), PluginFile(ThrowPlugin), PluginFile(GoodPlugin)>> }

\* the ScanConfig and the plugins loaded for it
Config(rate_limit, max_concurrent, respect_robots_txt, filter_pattern, plugin_files) ==
  [rate_limit |-> rate_limit, max_concurrent |-> max_concurrent,
   respect_robots_txt |-> respect_robots_txt, filter_pattern |-> filter_pattern,
   plugin_files |-> plugin_files, plugins |-> LoadPlugins(<<>>, plugin_files)]

(***************************************************************************)
(* Bounds                                                                  *)
(***************************************************************************)
\* the largest rate_limit and max_concurrent configured
MaxRate == 2
MaxConcurrent == 2
\* the most calls one task makes, one after the other
MaxCalls == 2
\* the most words of a file text
MaxWords == 2

\* all sequences over S of length at most n
RECURSIVE SeqsUpTo(_, _)
SeqsUpTo(S, n) ==
  IF n = 0 THEN {<<>>}
  ELSE LET shorter == SeqsUpTo(S, n - 1)
       IN shorter \cup {<<x>> \o q : x \in S, q \in {r \in shorter : Len(r) = n - 1}}

\* the state right after Scanner::new(config), with no request made yet
Fresh(config) ==
  /\ cfg = config
  /\ visited = VisitedNew
  /\ permits = SemaphoreNew(config)
  /\ tokens = QuotaBurst(config)
  /\ pc = [t \in Tasks |-> "idle"]
  /\ loc = [t \in Tasks |-> NoLocals]
  /\ ret = [t \in Tasks |-> <<>>]
  /\ sent = <<>>
  /\ began = None

DefaultPage == (RobotsUrl :> Ok(RobotsFree)) @@ (EntryUrl :> Ok(PageOne))
                 @@ (ScriptS :> Ok(JsGet))

(***************************************************************************)
(* Spec: tasks that call one Scanner concurrently, at most one call each;   *)
(* the server answers every request.  The Scanner was created at least      *)
(* MaxClock periods before the first call.                                  *)
(***************************************************************************)
Init ==
  /\ \E r \in 1..MaxRate, m \in 0..MaxConcurrent, robots \in BOOLEAN :
       Fresh(Config(r, m, robots, None, <<>>))
  /\ server = DefaultPage
  /\ files = <<>>
  /\ clock = MaxClock
  /\ todo \in [Tasks -> {<<>>, <<ScanUrl(EntryUrl)>>, <<FetchJs(ScriptS)>>}]

Next ==
  \/ \E t \in Tasks :
       \/ Call(t)
       \/ FetchCheck(t)
       \/ FetchInsert(t)
       \/ FetchAcquire(t)
       \/ GetUntilReady(t)
       \/ GetSend(t)
       \/ GetResponse(t)
  \/ Tick

Spec == Init /\ [][Next]_vars

(***************************************************************************)
(* SpecScan: one task scans, up to MaxCalls times in a row; the network may *)
(* fail any request, and plugins and a filter pattern may be configured.    *)
(***************************************************************************)
InitScan ==
  /\ \E robots \in BOOLEAN, f \in {None, Some(FilterApi)}, fs \in BasicPluginFiles :
       Fresh(Config(MaxRate, MaxConcurrent, robots, f, fs))
  /\ \E r \in {Ok(RobotsFree), Ok(RobotsDeny)} \cup {Fails(o) : o \in Failures},
        e \in {Ok(PageOne), Ok(PageTwo), Fails("timeout")},
        js \in {Ok(JsGet), Ok(JsWide), Ok(JsLink), Fails("status")},
        jt \in {Ok(JsKey), Fails("connect")} :
       /\ cfg.respect_robots_txt \/ r = Ok(RobotsFree)
       /\ server = (RobotsUrl :> r) @@ (EntryUrl :> e) @@ (ScriptS :> js)
                     @@ (ScriptT :> jt)
  /\ files = <<>>
  /\ clock = MaxClock
  /\ \E first \in {EntryUrl, BadUrl}, n \in 1..MaxCalls :
       todo = [t \in Tasks |->
                 IF t = 1 THEN [k \in 1..n |-> ScanUrl(IF k = 1 THEN first ELSE EntryUrl)]
                 ELSE <<>>]

SpecScan == InitScan /\ [][Next]_vars

(***************************************************************************)
(* SpecHooks: one task scans a site that answers every request, parses a    *)
(* file, or does both, on a Scanner built with each set of plugin files,    *)
(* with and without a filter pattern.                                       *)
(***************************************************************************)
InitHooks ==
  /\ \E f \in {None, Some(FilterApi)}, fs \in PluginFiles :
       Fresh(Config(MaxRate, MaxConcurrent, FALSE, f, fs))
  /\ \E e \in {PageOne, PageTwo}, js \in {Ok(JsGet), Fails("status")} :
       server = (EntryUrl :> Ok(e)) @@ (ScriptS :> js) @@ (ScriptT :> Ok(JsKey))
  /\ files = (FilePath :> JsGet \o <<" ">> \o JsKey)
  /\ clock = MaxClock
  /\ \E prog \in {<<ScanUrl(EntryUrl)>>, <<ParseFileOf(FilePath)>>,
                   <<ParseFileOf(FilePath), ScanUrl(EntryUrl)>>} :
       todo = [t \in Tasks |-> IF t = 1 THEN prog ELSE <<>>]

NextHooks == Next \/ \E t \in Tasks : ParseFile(t)

SpecHooks == InitHooks /\ [][NextHooks]_vars

(***************************************************************************)
(* SpecRate: fetches through one HttpClient from the moment it is created:  *)
(* task 1 makes up to MaxCalls fetches in sequence, every other task at     *)
(* most one, all of distinct URLs.                                          *)
(***************************************************************************)
DigitChar(n) == <<"0", "1", "2", "3", "4", "5", "6", "7", "8", "9">>[n + 1]
\* the URL of call k of task t
FetchUrl(t, k) == kHttp \o <<"h", "/", DigitChar(t), DigitChar(k)>>

InitRate ==
  /\ \E r \in 1..MaxRate :
       Fresh(Config(r, MaxConcurrent, FALSE, None, <<>>))
  /\ server = [u \in {FetchUrl(t, k) : t \in Tasks, k \in 1..MaxCalls} |-> Ok(JsGet)]
  /\ files = <<>>
  /\ clock = 0
  /\ \E n \in [Tasks -> 0..MaxCalls] :
       /\ \A t \in Tasks \ {1} : n[t] <= 1
       /\ todo = [t \in Tasks |-> [k \in 1..n[t] |-> FetchJs(FetchUrl(t, k))]]

SpecRate == InitRate /\ [][Next]_vars

(***************************************************************************)
(* SpecParse: parse_file on the texts of at most MaxWords words and on the   *)
(* scenario texts, with and without plugins and a filter pattern.           *)
(***************************************************************************)
Words ==
  { <<"\"","/","a","p","i","/","x","\"">>,
    <<"\"","/","a","p","i","/","x",".","p","n","g","\"">>,
    <<" ">>,
    <<"P","O","S","T"," ">>,
    <<"/","v","1","/","q","?","a","=","1","&","&","b">>,
    <<"\"","/","g","r","a","p","h","q","l","\"">>,
    <<"q","u","e","r","y"," ","Q">>,
    <<"w","s","s",":","/","/","h","/","s">>,
    <<"\"","/","a","p","i","/","g","q","l","\"">> }

Texts == {Concat(ws) : ws \in SeqsUpTo(Words, MaxWords)}

InitParse ==
  /\ \E fs \in BasicPluginFiles, f \in {None, Some(FilterApi)} :
       Fresh(Config(MaxRate, MaxConcurrent, TRUE, f, fs))
  /\ server = <<>>
  /\ \E text \in Texts \cup ScenarioTexts : files = (FilePath :> text)
  /\ clock = MaxClock
  /\ \E prog \in {<<ParseFileOf(FilePath)>>, <<ParseFileOf(MissingPath), ParseFileOf(FilePath)>>} :
       todo = [t \in Tasks |-> IF t = 1 THEN prog ELSE <<>>]

NextParse == \E t \in Tasks : ParseFile(t)

SpecParse == InitParse /\ [][NextParse]_vars

(***************************************************************************)
(* SpecBuild: a caller builds an endpoint with Endpoint::new and a chain of *)
(* at most MaxChain with_* updates, as test_endpoint_builder does.          *)
(***************************************************************************)
MaxChain == 3

EndpointNewOf(url, endpoint_type) == [op |-> "new", url |-> url, arg |-> endpoint_type]
WithOf(op, arg) == [op |-> op, url |-> <<>>, arg |-> arg]

UsersPath == <<"/","a","p","i","/","u","s","e","r","s">>
AppJs == <<"a","p","p",".","j","s">>
MethodGet == <<"G","E","T">>
MethodPost == <<"P","O","S","T">>
MetaFound == [found |-> <<"1">>]

\* the updates a caller may chain
Updates ==
  <<WithOf("with_method", MethodGet), WithOf("with_method", MethodPost),
    WithOf("with_source", AppJs), WithOf("with_source", FilePath),
    WithOf("with_line", 42), WithOf("with_line", 7),
    WithOf("with_params", <<>>), WithOf("with_params", <<AppJs>>),
    WithOf("with_metadata", MetaFound)>>

\* one call of the chain applied to the endpoint built so far
Apply(ep, c) ==
  CASE c.op = "new" -> EndpointNew(c.url, c.arg)
    [] c.op = "with_method" -> with_method(ep, c.arg)
    [] c.op = "with_source" -> with_source(ep, c.arg)
    [] c.op = "with_line" -> with_line(ep, c.arg)
    [] c.op = "with_params" -> with_params(ep, c.arg)
    [] c.op = "with_metadata" -> with_metadata(ep, c.arg)

\* the next call of the chain: Endpoint::new makes the endpoint, a with_*
\* takes the endpoint the call before it returned
Build(t) ==
  /\ pc[t] = "idle"
  /\ todo[t] # <<>>
  /\ Head(todo[t]).op \in {"new", "with_method", "with_source", "with_line",
                          "with_params", "with_metadata"}
  /\ todo' = [todo EXCEPT ![t] = Tail(@)]
  /\ LET Step(c, ep) == Returned(c, TRUE, "none", Apply(ep, c))
     IN ret' = [ret EXCEPT ![t] =
                  Append(@, Step(Head(todo[t]),
                                 IF @ = <<>> THEN <<>> ELSE @[Len(@)].value))]
  /\ UNCHANGED <<cfg, server, files, visited, permits, tokens, clock, pc, loc, sent,
                 began>>

InitBuild ==
  /\ Fresh(Config(MaxRate, MaxConcurrent, TRUE, None, <<>>))
  /\ server = <<>>
  /\ files = <<>>
  /\ clock = MaxClock
  /\ \E url \in {UsersPath, EntryUrl}, type \in {"Rest", "Unknown"},
        chain \in SeqsUpTo(DOMAIN Updates, MaxChain) :
       todo = [t \in Tasks |->
                 IF t = 1
                 THEN <<EndpointNewOf(url, type)>>
                      \o [k \in 1..Len(chain) |-> Updates[chain[k]]]
                 ELSE <<>>]

NextBuild == \E t \in Tasks : Build(t)

SpecBuild == InitBuild /\ [][NextBuild]_vars

(***************************************************************************)
(* SpecRobots: tasks scan a site whose robots.txt is answered, with         *)
(* respect_robots_txt set; the rules name the entry path, another path, or  *)
(* a longer path that begins with the entry path.                           *)
(***************************************************************************)
RobotsLonger == <<"D","i","s","a","l","l","o","w",":"," ","/","a","d","m","i","n">>
RobotsTwoRules == RobotsFree \o <<"\n">> \o RobotsDeny

InitRobots ==
  /\ Fresh(Config(MaxRate, MaxConcurrent, TRUE, None, <<>>))
  /\ \E r \in {RobotsFree, RobotsDeny, RobotsLonger, RobotsTwoRules},
        e \in {Ok(PageOne), Ok(PageTwo), Fails("timeout")} :
       server = (RobotsUrl :> Ok(r)) @@ (EntryUrl :> e) @@ (ScriptS :> Ok(JsGet))
                  @@ (ScriptT :> Ok(JsKey))
  /\ files = <<>>
  /\ clock = MaxClock
  /\ todo \in [Tasks -> {<<>>, <<ScanUrl(EntryUrl)>>}]

SpecRobots == InitRobots /\ [][Next]_vars

(***************************************************************************)
(* SpecLimiter: tasks scan a site with an empty entry page, robots.txt      *)
(* asked first, or fetch a script, at each rate.                            *)
(***************************************************************************)
InitLimiter ==
  /\ \E r \in 1..MaxRate : Fresh(Config(r, MaxConcurrent, TRUE, None, <<>>))
  /\ server = (RobotsUrl :> Ok(RobotsFree)) @@ (EntryUrl :> Ok(<<>>))
                @@ (ScriptS :> Ok(JsGet))
  /\ files = <<>>
  /\ clock = MaxClock
  /\ todo \in [Tasks -> {<<>>, <<ScanUrl(EntryUrl)>>, <<FetchJs(ScriptS)>>}]

SpecLimiter == InitLimiter /\ [][Next]_vars

(***************************************************************************)
(* SpecFair: the tasks of SpecLimiter on a Scanner with each max_concurrent *)
(* from 0 on, under a fair scheduler: a task that can take a step takes it, *)
(* a task that waits for a permit or a cell gets it if one is free again    *)
(* and again (the semaphore and the limiter serve their waiters in turn),   *)
(* every request is answered, and time passes.                              *)
(***************************************************************************)
InitFair ==
  /\ \E r \in 1..MaxRate, m \in 0..MaxConcurrent :
       Fresh(Config(r, m, TRUE, None, <<>>))
  /\ server = (RobotsUrl :> Ok(RobotsFree)) @@ (EntryUrl :> Ok(<<>>))
                @@ (ScriptS :> Ok(JsGet))
  /\ files = <<>>
  /\ clock = MaxClock
  /\ todo \in [Tasks -> {<<>>, <<ScanUrl(EntryUrl)>>, <<FetchJs(ScriptS)>>}]

\* the steps of task t that wait for nothing but the scheduler or the network
Runs(t) ==
  \/ Call(t) \/ FetchCheck(t) \/ FetchInsert(t) \/ GetSend(t) \/ GetResponse(t)

Fairness ==
  /\ WF_vars(Tick)
  /\ \A t \in Tasks :
       /\ WF_vars(Runs(t))
       /\ SF_vars(FetchAcquire(t))
       /\ SF_vars(GetUntilReady(t))

SpecFair == InitFair /\ [][Next]_vars /\ Fairness

(***************************************************************************)
(* What the properties speak about                                         *)
(***************************************************************************)
Range(q) == {q[k] : k \in 1..Len(q)}
\* what the calls returned so far
Results == UNION {Range(ret[t]) : t \in Tasks}
\* the locals of every call, returned or running
Locals == {r.call : r \in Results} \cup {loc[t] : t \in Tasks}
\* every task made all its calls and is back
AllReturned == \A t \in Tasks : pc[t] = "idle" /\ todo[t] = <<>>
IsRobotsUrl(u) == ends_with(u, kRobots)
EmptyOk == [ok |-> TRUE, body |-> <<>>, err |-> "none"]
\* the requests that went out for the fetches of the call with locals l
Requested(l) == {l.log[k].url : k \in {j \in 1..Len(l.log) : l.log[j].issued > 0}}
\* the endpoints that went into the plugin loop of the call: all_endpoints
\* of scan_url, endpoints of parse_file
Hooked(r) == r.call.all
\* what scan_url returns for the bodies its asset and main-page fetches got
Processed(l) ==
  ApplyFilter(cfg.filter_pattern,
    ApplyPlugins(cfg.plugins,
      Concat([k \in 1..Len(l.log) |->
                IF l.log[k].phase \in {"asset", "main"} /\ l.log[k].res.ok
                THEN parse_js(l.log[k].res.body, Some(l.log[k].url)).endpoints
                ELSE <<>>])))

(***************************************************************************)
(* Properties                                                              *)
(***************************************************************************)
\* C1: the sequence returned by scan_url and the sequence returned by
\* parse_file hold no two elements with the same (url, method) pair.
C1_NoDuplicatePairs ==
  \A r \in Results :
    r.ok /\ r.call.op \in {"scan_url", "parse_file"} =>
      \A i, j \in 1..Len(r.value) :
        i # j => <<r.value[i].url, r.value[i].method>>
                   # <<r.value[j].url, r.value[j].method>>

\* C2: the requests in flight (entry page, scripts and robots.txt alike) are
\* never more than max_concurrent, whatever calls run concurrently.
C2_InFlightWithinMaxConcurrent == Cardinality(InFlight) <= cfg.max_concurrent

\* C3: when tasks fetch the same URL concurrently, at most one request for
\* that URL goes out under every interleaving.
C3_OneRequestPerUrl == \A u \in DOMAIN sent : ~IsRobotsUrl(u) => sent[u] <= 1

\* C4: a fetch of a URL that was fetched before issues no request, takes no
\* permit and no token, and returns empty content as a success; a URL is
\* requested at most once by fetches made in sequence; the visited set holds
\* all it held when a call began.
C4_VisitedSkips ==
  /\ \A l \in Locals : \A k \in 1..Len(l.log) :
       l.log[k].seen =>
         l.log[k].issued = 0 /\ l.log[k].took = 0 /\ l.log[k].res = EmptyOk
  /\ \A u \in DOMAIN sent : ~IsRobotsUrl(u) => sent[u] <= 1
  /\ \A l \in Locals : l.start \subseteq visited

\* a fetch was skipped for a URL that had been requested
C4_Witness ==
  \E l \in Locals : \E k \in 1..Len(l.log) :
    l.log[k].seen /\ Sent(l.log[k].url) = 1 /\ l.log[k].res = EmptyOk

\* C5 as stated: N fetches through a limiter of R requests per second take
\* no less than (N - 1) / R seconds end-to-end, that is N - 1 periods of 1/R
\* second, from a freshly created limiter and for N <= R as well.
C5_SpacedByPeriod ==
  (AllReturned /\ began # None /\ clock < MaxClock) =>
    clock - began[1] >= NumSent - 1

\* C5 amended: N fetches through a limiter of R requests per second take no
\* less than (N - R) / R seconds, that is N - R periods: the first R may go
\* out at once, each further one waits for its period.
C5_SpacedAfterBurst ==
  (began # None /\ clock < MaxClock) =>
    clock - began[1] >= NumSent - cfg.rate_limit

\* more fetches than the burst went out and returned, so some waited
C5_Witness ==
  AllReturned /\ clock < MaxClock /\ NumSent > cfg.rate_limit

\* C6: whenever scan_url fetched the entry page successfully, the endpoints
\* extracted from its body, with the entry URL as source, are part of the
\* processed result.
C6_EntryPageExtracted ==
  \A r \in Results :
    (r.call.op = "scan_url" /\ r.ok /\ r.call.entry # None) =>
      LET parsed == parse_js(r.call.entry[1], Some(r.call.url))
      IN Range(ApplyFilter(cfg.filter_pattern,
                           ApplyPlugins(cfg.plugins, parsed.endpoints)))
           \subseteq Range(r.value)

\* C7: however the retrieval of robots.txt fails, the check resolves to
\* allowed and scan_url does not return an error for it.
C7_RobotsFailureAllows ==
  \A l \in Locals :
    (l.robots # "none" /\ Respond(robots_url(l.base)).outcome # "ok") =>
      /\ l.robots = "allowed"
      /\ \A r \in Results : r.call = l => r.ok

\* C8: when robots.txt disallows the entry URL, crawl returns an empty
\* sequence as a success, having requested nothing for the entry page and
\* added nothing to the visited set.
C8_DisallowedCrawlIsEmpty ==
  \A l \in Locals :
    l.robots = "disallowed" =>
      /\ l.crawl = Some(<<>>)
      /\ l.crawl_sent = 0
      /\ l.crawl_added = {}
      /\ \A k \in 1..Len(l.log) : l.log[k].phase # "html"

\* a scan whose crawl was disallowed returned
C8_Witness ==
  \E r \in Results : r.call.op = "scan_url" /\ r.call.robots = "disallowed" /\ r.ok

\* C9: every scan_url starts with an empty visited set, so two successive
\* scans of one URL on one Scanner request the same URLs and return the same
\* set of endpoints.
C9_ScansIndependent ==
  \A t \in Tasks : \A i, j \in 1..Len(ret[t]) :
    (/\ i < j
     /\ ret[t][i].call.op = "scan_url" /\ ret[t][j].call.op = "scan_url"
     /\ ret[t][i].call.url = ret[t][j].call.url
     /\ ret[t][i].ok) =>
      /\ ret[t][j].call.start = {}
      /\ ret[t][j].ok
      /\ Requested(ret[t][j].call) = Requested(ret[t][i].call)
      /\ Range(ret[t][j].value) = Range(ret[t][i].value)

\* C10: the failure to fetch or parse one asset never aborts scan_url: once
\* crawl returned, scan_url returns success with the processed endpoints of
\* the assets that were fetched and parsed.
C10_AssetFailureSkipped ==
  /\ \A t \in Tasks : pc[t] # "panicked"
  /\ \A r \in Results :
       (r.call.op = "scan_url" /\ r.call.crawl # None) =>
         r.ok /\ r.value = Processed(r.call)

\* scan_url is called with an entry URL that has neither scheme, and the call
\* is over in the same step with the error kind, no request sent, no token
\* and no permit taken and the visited set as it was
BadEntryFails(t, kind) ==
  (/\ pc[t] = "idle" /\ todo[t] # <<>>
   /\ Head(todo[t]).op = "scan_url"
   /\ ~starts_with(Head(todo[t]).url, kHttp)
   /\ ~starts_with(Head(todo[t]).url, kHttps)
   /\ todo'[t] = Tail(todo[t])) =>
    /\ pc'[t] = "idle"
    /\ Len(ret'[t]) = Len(ret[t]) + 1
    /\ ~ret'[t][Len(ret'[t])].ok
    /\ ret'[t][Len(ret'[t])].err = kind
    /\ ret'[t][Len(ret'[t])].value = <<>>
    /\ sent' = sent /\ tokens' = tokens /\ permits' = permits
    /\ visited' = visited

C12_MissingFileIsIoError ==
  [][\A t \in Tasks :
       (/\ pc[t] = "idle" /\ todo[t] # <<>>
        /\ Head(todo[t]).op = "parse_file"
        /\ Head(todo[t]).url \notin DOMAIN files
        /\ todo'[t] = Tail(todo[t])) =>
         /\ pc'[t] = "idle"
         /\ Len(ret'[t]) = Len(ret[t]) + 1
         /\ ~ret'[t][Len(ret'[t])].ok
         /\ ret'[t][Len(ret'[t])].err = "IoError"
         /\ ret'[t][Len(ret'[t])].value = <<>>]_vars

\* parse_file failed on a missing file and the next file was parsed
C12_Witness ==
  \E t \in Tasks :
    /\ Len(ret[t]) = 2
    /\ ret[t][1].call.url \notin DOMAIN files
    /\ ~ret[t][1].ok /\ ret[t][1].err = "IoError"
    /\ ret[t][2].ok /\ ret[t][2].value # <<>>

\* the elements of seq at the indices idx, in ascending order of index
AtIndices(seq, idx) ==
  [j \in 1..Cardinality(idx) |->
     seq[CHOOSE k \in idx : Cardinality({i \in idx : i < k}) = j - 1]]

\* what a successful scan_url returned is the processed endpoints whose url
\* contains the pattern, in their order
FilteredByFinalUrl(r, processed) ==
  IF cfg.filter_pattern = None THEN r.value = processed
  ELSE r.value =
         AtIndices(processed,
                   {k \in 1..Len(processed) :
                      contains(processed[k].url, cfg.filter_pattern[1])})

\* C13: with filter_pattern configured scan_url returns exactly the processed
\* endpoints whose url after the plugin transform contains the pattern, in
\* their relative order; with none configured it returns all of them.
C13_FilterOnFinalUrl ==
  \A r \in Results :
    (r.call.op = "scan_url" /\ r.ok) =>
      FilteredByFinalUrl(r, ApplyPlugins(cfg.plugins, r.call.all))

\* a scan with a filter returned some endpoints and dropped one whose url
\* held the pattern as extracted but no longer after the transform
C13_Witness ==
  \E r \in Results :
    /\ r.call.op = "scan_url" /\ r.ok /\ cfg.filter_pattern # None
    /\ r.value # <<>>
    /\ \E k \in 1..Len(r.call.all) :
         /\ contains(r.call.all[k].url, cfg.filter_pattern[1])
         /\ filter_endpoint(cfg.plugins, r.call.all[k])
         /\ ~contains(transform_endpoint(cfg.plugins, r.call.all[k]).url,
                      cfg.filter_pattern[1])

\* C14: every endpoint returned by parse_file with filter_pattern configured
\* has a url that contains the pattern.
C14_FileFilterApplied ==
  \A r \in Results :
    (r.call.op = "parse_file" /\ r.ok /\ cfg.filter_pattern # None) =>
      \A k \in 1..Len(r.value) : contains(r.value[k].url, cfg.filter_pattern[1])

\* with no plugin loaded, what parse_file returned is the extracted sequence,
\* every element of it kept and unchanged
NoPluginIsIdentity(r, extracted) ==
  /\ \A k \in 1..Len(extracted) :
       /\ filter_endpoint(cfg.plugins, extracted[k])
       /\ transform_endpoint(cfg.plugins, extracted[k]) = extracted[k]
  /\ r.value = extracted

\* C15: with no extension loaded filter_endpoint is true for every endpoint
\* and transform_endpoint returns its argument unchanged in every field, so
\* parse_file returns exactly the extractor's output for the file text, in
\* the same order.
C15_NoPluginIsIdentity ==
  \A r \in Results :
    (r.call.op = "parse_file" /\ r.ok /\ cfg.plugins = <<>>) =>
      NoPluginIsIdentity(r, parse_js(files[r.call.url], Some(r.call.url)).endpoints)

\* parse_file returned endpoints with no plugin loaded
C15_Witness ==
  \E r \in Results :
    r.call.op = "parse_file" /\ r.ok /\ cfg.plugins = <<>> /\ Len(r.value) >= 2

\* a callback that raises or answers with the wrong type, taken out: the
\* plugin as it is when that callback is absent
WithoutFailing(p) ==
  [filter |-> IF p.filter \in {"raise", "nonbool"} THEN "absent" ELSE p.filter,
   transform |-> IF p.transform \in {"raise", "nondict", "no_url"} THEN "absent"
                 ELSE p.transform]

\* the transform callback of p fails for ep
TransformFails(p, ep) ==
  LET Bad(r) == r.kind \in {"raise", "nondict"} \/ (r.kind = "dict" /\ r.dict.url = None)
  IN Bad(TransformCall(p, endpoint_to_dict(ep)))

\* the call succeeded with what the plugins give when the failing callbacks
\* are left out, and each endpoint is unchanged by a failing transform
FailuresHaveNoEffect(r, eps, hooked) ==
  /\ r.ok
  /\ r.value = IF r.call.op = "scan_url" THEN ApplyFilter(cfg.filter_pattern, hooked)
               ELSE hooked
  /\ \A k \in 1..Len(eps), j \in 1..Len(cfg.plugins) :
       TransformFails(cfg.plugins[j], eps[k]) => TransformOne(cfg.plugins[j], eps[k]) = eps[k]

\* C16: a failing extension has no effect and never aborts the call: a filter
\* callback that raises or answers a non-boolean keeps the endpoint, a
\* transform callback that raises, answers a non-dict or a dict with no url
\* leaves the endpoint as it was, a plugin file that does not load leaves the
\* Scanner with the plugins of the files that do, the other plugins still
\* run, and scan_url and parse_file return success.
C16_PluginFailureIsolated ==
  /\ cfg.plugins = [k \in 1..Len(SelectSeq(cfg.plugin_files, LAMBDA f : f.loads)) |->
                      SelectSeq(cfg.plugin_files, LAMBDA f : f.loads)[k].plugin]
  /\ \A r \in Results :
       (\/ r.call.op = "scan_url" /\ r.call.crawl # None
        \/ r.call.op = "parse_file" /\ r.call.url \in DOMAIN files) =>
         FailuresHaveNoEffect(r, Hooked(r),
           ApplyPlugins([k \in 1..Len(cfg.plugins) |-> WithoutFailing(cfg.plugins[k])],
                        Hooked(r)))

\* a call returned endpoints although a plugin file did not load and a
\* callback of a loaded plugin failed, with a later plugin changing them
C16_Witness ==
  \E r \in Results :
    /\ r.ok /\ r.value # <<>>
    /\ \E k \in 1..Len(cfg.plugin_files) : ~cfg.plugin_files[k].loads
    /\ \E j \in 1..Len(cfg.plugins) : \E e \in Range(Hooked(r)) :
         /\ TransformFails(cfg.plugins[j], e)
         /\ FilterCall(cfg.plugins[j], endpoint_to_dict(e)) = "raise"
         /\ transform_endpoint(cfg.plugins, e) # e

\* C17: every endpoint parse_js emits for a text, from the generic URL rule
\* and from every API-signature rule, has a non-empty url that does not end
\* in one of the static-asset extensions.
C17_NoStaticAssetUrl ==
  \A r \in Results :
    (r.call.op = "parse_file" /\ r.ok) =>
      \A e \in Range(Hooked(r)) :
        /\ e.url # <<>>
        /\ \A k \in 1..Len(Extensions) : ~ends_with(e.url, Extensions[k])

\* the url https://api.example.com/users of the first scenario text
UsersUrl == SubSeq(FetchAxiosText, 8, 36)
\* the url /api/v1/posts of the first scenario text
PostsUrl == SubSeq(FetchAxiosText, 52, 64)

\* what was extracted from the first scenario text holds both urls, and the
\* endpoints with the first url have the type users_type, those with the
\* second the type Rest
FetchAxiosExtracted(eps, users_type) ==
  /\ Len(eps) >= 2
  /\ \E k \in 1..Len(eps) : eps[k].url = UsersUrl
  /\ \E k \in 1..Len(eps) : eps[k].url = PostsUrl
  /\ \A k \in 1..Len(eps) :
       /\ eps[k].url = UsersUrl => eps[k].endpoint_type = users_type
       /\ eps[k].url = PostsUrl => eps[k].endpoint_type = "Rest"

\* C18 as stated: extracting from the text of the two calls yields at least
\* two endpoints, among them one with url https://api.example.com/users and
\* one with url /api/v1/posts, and every endpoint with either url is Rest.
C18_BothRest ==
  \A r \in Results :
    (r.call.op = "parse_file" /\ r.ok /\ files[r.call.url] = FetchAxiosText) =>
      FetchAxiosExtracted(Hooked(r), "Rest")

\* C18 amended: the same, except that every endpoint with url
\* https://api.example.com/users is Unknown: the url holds none of /api/,
\* /v1/, /v2/.
C18_PostsRestUsersUnknown ==
  \A r \in Results :
    (r.call.op = "parse_file" /\ r.ok /\ files[r.call.url] = FetchAxiosText) =>
      FetchAxiosExtracted(Hooked(r), "Unknown")

\* the text of the two calls was parsed
C18_Witness ==
  \E r \in Results :
    /\ r.call.op = "parse_file" /\ r.ok /\ files[r.call.url] = FetchAxiosText
    /\ Len(Hooked(r)) >= 2

\* the url holds graphql or /gql
IsGraphqlUrl(url) == contains(url, kGraphql) \/ contains(url, <<"/", "g", "q", "l">>)

\* eps begins with one endpoint for each generic-rule url, in the order of
\* urls, and those whose url holds graphql or /gql are GraphQL
GenericGraphql(eps, urls) ==
  /\ Len(eps) >= Len(urls)
  /\ \A k \in 1..Len(urls) :
       /\ eps[k].url = urls[k]
       /\ IsGraphqlUrl(urls[k]) => eps[k].endpoint_type = "GraphQL"

\* C19: extracting from the text with the gql query template and the fetch of
\* /graphql yields at least one GraphQL endpoint, and every generic-rule
\* candidate whose url holds graphql or /gql is GraphQL, whatever else the
\* url holds.
C19_GraphqlFirst ==
  \A r \in Results :
    (r.call.op = "parse_file" /\ r.ok) =>
      /\ files[r.call.url] = GqlFetchText =>
           \E e \in Range(Hooked(r)) : e.endpoint_type = "GraphQL"
      /\ GenericGraphql(Hooked(r), find_urls(files[r.call.url]))

\* a generic-rule url that holds /gql and /api/ as well was extracted
C19_Witness ==
  \E r \in Results :
    /\ r.call.op = "parse_file" /\ r.ok
    /\ \E u \in Range(find_urls(files[r.call.url])) :
         IsGraphqlUrl(u) /\ contains(u, <<"/", "a", "p", "i", "/">>)

\* u is a URL a scan_url with locals l may request: the robots.txt of the
\* entry host, the entry URL, or a script of the entry page
OneHop(l, u) ==
  \/ u = l.url
  \/ u = robots_url(l.base)
  \/ /\ Respond(l.url).outcome = "ok"
     /\ u \in Range(extract_scripts(Respond(l.url).body, l.base))

\* C20: every URL requested during a scan_url is the robots.txt of the entry
\* host, the entry URL, or a script whose src occurs in the entry page; a URL
\* that occurs only in the body of a fetched script is never requested.
C20_OneHop ==
  \A u \in DOMAIN sent :
    \E l \in Locals : l.op = "scan_url" /\ UrlParse(l.url).ok /\ OneHop(l, u)

\* a scan returned an endpoint for a URL that a fetched script names and the
\* entry page does not, and the URL was not requested
C20_Witness ==
  \E r \in Results :
    /\ r.call.op = "scan_url" /\ r.ok
    /\ Sent(ScriptS) = 1 /\ Respond(ScriptS) = Ok(JsLink)
    /\ \E e \in Range(r.call.all) : e.url = ScriptT /\ ~OneHop(r.call, e.url)
    /\ Sent(ScriptT) = 0

(***************************************************************************)
(* C21: the Endpoint builders                                              *)
(***************************************************************************)
\* the argument of the last call of op among the calls, None without one
LastArg(calls, op) ==
  LET ks == {k \in 1..Len(calls) : calls[k].op = op}
  IN IF ks = {} THEN None ELSE Some(calls[Max(ks)].arg)

\* ep is what the spec says the calls build: url and endpoint_type of
\* Endpoint::new, every other field the argument of its last update, unset
\* without one
BuiltFrom(ep, calls) ==
  /\ ep.url = calls[1].url
  /\ ep.endpoint_type = calls[1].arg
  /\ ep.method = LastArg(calls, "with_method")
  /\ ep.source = LastArg(calls, "with_source")
  /\ ep.line = LastArg(calls, "with_line")
  /\ ep.params = LastArg(calls, "with_params")
  /\ ep.metadata = LastArg(calls, "with_metadata")

\* C21: Endpoint::new sets url and endpoint_type and leaves method, source,
\* line, params and metadata unset; each with_* sets its own field and no
\* other, so after any chain of updates every field holds the argument of
\* its last update (the order of updates of different fields does not
\* matter, the last update of a field wins).
C21_BuildersFieldLocal ==
  \A t \in Tasks : \A k \in 1..Len(ret[t]) :
    ret[t][1].call.op = "new" =>
      BuiltFrom(ret[t][k].value, [j \in 1..k |-> ret[t][j].call])

\* a chain that updates method, then source, then method again has returned
C21_Witness ==
  \E t \in Tasks :
    /\ Len(ret[t]) = 4
    /\ ret[t][1].call.op = "new"
    /\ ret[t][2].call = WithOf("with_method", MethodGet)
    /\ ret[t][3].call.op = "with_source"
    /\ ret[t][4].call = WithOf("with_method", MethodPost)
    /\ ret[t][4].value.source # None

(***************************************************************************)
(* C22: the robots.txt match                                               *)
(***************************************************************************)
\* robots_content has a rule line that is Disallow: followed by exactly path
HasExactRule(robots_content, path) ==
  \E k \in 1..Len(split(robots_content, "\n")) :
    split(robots_content, "\n")[k] = kDisallow \o path

\* C22: check_robots_txt disallows a URL if and only if the robots.txt it
\* retrieved has a Disallow rule whose path is exactly the path of the URL;
\* a rule for a longer path that only begins with the path of the URL does
\* not disallow it.
C22_ExactPathDisallows ==
  \A l \in Locals :
    l.robots \in {"allowed", "disallowed"} =>
      (l.robots = "disallowed"
         <=> HasExactRule(server[RobotsUrl].body, l.base.path))

(***************************************************************************)
(* C23: the rate limiter and the requests                                  *)
(***************************************************************************)
\* the cells the running fetch of the call took from the limiter: what it
\* took in all, less its semaphore permit
TokensTaken(l) == l.took - (IF l.permit THEN 1 ELSE 0)

\* task t can take a step
CanStep(t) ==
  ENABLED (\/ Call(t) \/ FetchCheck(t) \/ FetchInsert(t) \/ FetchAcquire(t)
           \/ GetUntilReady(t) \/ GetSend(t) \/ GetResponse(t))

\* task t has something to do that is not the wait for a permit or a cell
Runnable(t) ==
  \/ pc[t] = "idle" /\ todo[t] # <<>>
  \/ pc[t] \in {"check", "insert", "get_send", "get_wait"}
  \/ pc[t] = "acquire" /\ permits > 0
  \/ pc[t] = "get_token" /\ tokens > 0

\* C23: every request (entry page, script, robots.txt) goes out only after
\* its task took one cell from the one limiter of the crawler: the limiter
\* never hands out a cell it does not have, a task about to send holds
\* exactly one cell more than it has sent requests, every finished fetch
\* took one cell for each request it sent, and while a task waits for a cell
\* every other task that has something to do can take its step.
C23_TokenBeforeSend ==
  /\ tokens >= 0
  /\ \A t \in Tasks :
       /\ TokensTaken(loc[t]) = loc[t].issued + (IF pc[t] = "get_send" THEN 1 ELSE 0)
       /\ loc[t].issued <= 1
       /\ pc[t] = "get_token" /\ tokens = 0 =>
            \A u \in Tasks \ {t} : Runnable(u) => CanStep(u)
  /\ \A l \in Locals : \A k \in 1..Len(l.log) :
       l.log[k].took = 2 * l.log[k].issued

\* a task waits for a cell while the robots.txt request of another task is out
C23_Witness ==
  \E t \in Tasks, u \in Tasks :
    /\ pc[t] = "get_token" /\ tokens = 0
    /\ pc[u] = "get_wait" /\ loc[u].phase = "robots"
    /\ Sent(RobotsUrl) > 0

(***************************************************************************)
(* C24: method inference                                                   *)
(***************************************************************************)
\* the method the window of Window characters before and after character
\* pos of content gives: the first method token in it, in upper case
MethodInWindow(content, pos) ==
  LET First(snippet, hits) ==
        IF hits = {} THEN None
        ELSE Some(to_uppercase(
               SubSeq(snippet, Min(hits), HTTP_METHODS(snippet, Min(hits)))))
      Search(snippet) ==
        First(snippet, {k \in 1..Len(snippet) : HTTP_METHODS(snippet, k) > 0})
  IN Search(SubSeq(content, Max({1, pos - Window}),
                   Min({pos + Window - 1, Len(content)})))

\* the endpoints api of the API-signature matches caps of content carry the
\* method of the window of their match
MethodsFromWindow(content, api, caps) ==
  /\ Len(api) = Len(caps)
  /\ \A k \in 1..Len(caps) : api[k].method = MethodInWindow(content, caps[k].start)

\* the last n elements of seq
LastN(seq, n) == SubSeq(seq, Len(seq) - n + 1, Len(seq))

\* the matches of the API-signature rules in content, in the order of the rules
ApiMatches(content) ==
  Concat([rule \in 1..NumApiPatterns |-> captures_iter(rule, content, 1)])

\* C24: the method of the endpoint of every API-signature match is the first
\* HTTP method token, in any letter case, in the window of 100 characters
\* before and after the match, in upper case; it is unset when the window
\* holds no method token, so a token outside the window is never attached.
C24_MethodFromWindow ==
  \A r \in Results :
    r.call.op = "parse_file" /\ r.ok =>
      LET Holds(content, caps) ==
            MethodsFromWindow(content, LastN(Hooked(r), Len(caps)), caps)
      IN Holds(files[r.call.url], ApiMatches(files[r.call.url]))

(***************************************************************************)
(* C25: the GraphQL line rule                                              *)
(***************************************************************************)
\* the text holds a GraphQL query-template marker: gql followed by a
\* backtick, or query followed by a space and an opening brace
HasQueryTemplate(content) ==
  \/ contains(content, <<"g","q","l","U+0060">>)
  \/ contains(content, <<"q","u","e","r","y"," ","{">>)

\* the line names a GraphQL path
IsGraphqlLine(line) ==
  \/ contains(line, <<"/","g","r","a","p","h","q","l">>)
  \/ contains(line, <<"/","v","1","/","q","u","e","r","y">>)

\* eps holds, for every line of lines that names a GraphQL path, an endpoint
\* of type GraphQL whose url stands on that line
GraphqlLinesEmitted(eps, lines) ==
  \A k \in 1..Len(lines) :
    IsGraphqlLine(lines[k]) =>
      \E j \in 1..Len(eps) :
        eps[j].endpoint_type = "GraphQL" /\ contains(lines[k], eps[j].url)

\* C25: when the text given to Parser::parse_js holds a GraphQL
\* query-template marker, the result has, for every line of the text that
\* contains /graphql or /v1/query, a GraphQL-typed endpoint emitted for that
\* line.
C25_GraphqlLineRule ==
  \A r \in Results :
    r.call.op = "parse_file" /\ r.ok /\ HasQueryTemplate(files[r.call.url]) =>
      GraphqlLinesEmitted(Hooked(r), split(files[r.call.url], "\n"))

(***************************************************************************)
(* C26: query parameters                                                   *)
(***************************************************************************)
\* the elements of seq that are not empty, in order
RECURSIVE NonEmpty(_)
NonEmpty(seq) ==
  IF seq = <<>> THEN <<>>
  ELSE (IF Head(seq) = <<>> THEN <<>> ELSE <<Head(seq)>>) \o NonEmpty(Tail(seq))

\* the keys of the non-empty components of the query string of url
QueryKeys(url) ==
  LET Keys(pieces) == [k \in 1..Len(pieces) |-> Head(split(pieces[k], "="))]
  IN Keys(NonEmpty(split(SubSeq(url, find(url, <<"?">>) + 1, Len(url)), "&")))

\* the params the spec gives an endpoint: the keys for a url with a ?, unset
\* without one
ParamsOfUrl(ep) ==
  IF contains(ep.url, <<"?">>) THEN ep.params = Some(QueryKeys(ep.url))
  ELSE ep.params = None

\* C26: every endpoint emitted for a candidate of the generic URL rule whose
\* url contains ? carries as params the keys (the text left of =) of the
\* non-empty components of its query string split on &, in order; empty
\* components give no key; a url without ? has params unset.
C26_ParamsAreKeys ==
  \A r \in Results :
    r.call.op = "parse_file" /\ r.ok =>
      \A k \in 1..Len(find_urls(files[r.call.url])) : ParamsOfUrl(Hooked(r)[k])

(***************************************************************************)
(* C27: a disallowed entry URL                                             *)
(***************************************************************************)
\* the call with locals l sent a request for its entry URL
EntryRequested(l) ==
  \/ l.cur = l.url /\ l.issued > 0
  \/ \E k \in 1..Len(l.log) : l.log[k].url = l.url /\ l.log[k].issued > 0

\* C27: when respect_robots_txt is set and robots.txt disallows the entry
\* URL, scan_url sends no request for the entry URL at any point of the scan
\* and returns no endpoint extracted from the entry page.
C27_DisallowedEntryNotRequested ==
  /\ \A l \in Locals : l.robots = "disallowed" => ~EntryRequested(l)
  /\ \A r \in Results :
       r.call.robots = "disallowed" =>
         \A k \in 1..Len(r.value) : r.value[k].source # Some(r.call.url)

(***************************************************************************)
(* C28: failed URLs stay visited                                           *)
(***************************************************************************)
\* the fetches of task t so far, in order: those of the calls that returned
\* and those of the call it is in
FetchLog(t) ==
  Concat([k \in 1..Len(ret[t]) |-> ret[t][k].call.log]) \o loc[t].log

\* in log, every fetch of a URL after a failed fetch of that URL found it
\* visited, sent nothing and returned the empty body as success
FailedStaysVisited(log) ==
  \A j \in 1..Len(log) : \A k \in (j + 1)..Len(log) :
    (~log[j].res.ok /\ log[k].url = log[j].url) =>
      log[k].seen /\ log[k].issued = 0 /\ log[k].res = EmptyOk

C29_EveryCallReturns == <>AllReturned

(***************************************************************************)
(* C30: parse_js runs to completion                                        *)
(***************************************************************************)
\* C30: Parser::parse_js runs to completion and returns a result for every
\* text, multi-byte characters within 100 bytes of an API-signature match
\* and the empty text included: no call ends in a panic of the slice of the
\* method-inference window.
C30_ParseNeverPanics ==
  \A t \in Tasks : pc[t] # "panicked"

====
